---------------------------- MODULE Spec2Model ----------------------------
(***************************************************************************)
(* Model of kernel/lib/alf_queue_bench.c: the loop-overhead calibrator,    *)
(* the three workload variants (single, multi, BULK), the driver           *)
(* run_benchmark_tests and the module init function.                       *)
(*                                                                         *)
(* Every enqueue or dequeue call is one step.  The C integer types keep    *)
(* their wrap-around: int and uint32_t are INT_BITS wide and uint64_t is   *)
(* twice as wide.  TLC's integers are 32-bit, so INT_BITS stands for the   *)
(* 32 of the source, scaled down; every literal of the source that is      *)
(* derived from the width ((1ULL<<32)-1) is written in terms of INT_BITS.  *)
(* The driver's loop count (10000000 in the source) is scaled with it so   *)
(* that, as in the source, every configuration of the driver passes the    *)
(* overflow guard and stays below INT_MAX.                                 *)
(***************************************************************************)
EXTENDS Integers, Sequences, FiniteSets, TLC

\* ----------------------------------------------------------------- bounds
INT_BITS == 13
\* run_benchmark_tests: uint32_t loops (scaled down with INT_BITS)
loops == 100
\* A queue of kind "any" (partial transfers) is only driven with small inputs.
PartialLoops == 2
PartialStep == 3
\* In the driver, a faulty queue fails only within the first calls of a run.
FaultWindow == 2

\* -------------------------------------------------------------- constants
MAX_BULK == 32
\* a ring shorter than the widest configuration
ring_size_short == 128 - 1
ring_size == 512

NULL == "NULL"

\* ------------------------------------------------------ integer arithmetic
RECURSIVE Pow2(_)
Pow2(k) == IF k = 0 THEN 1 ELSE 2 * Pow2(k - 1)

UINT_MOD == Pow2(INT_BITS)
U64_MOD == Pow2(2 * INT_BITS)

\* (uint32_t) x
ToU32(x) == x % UINT_MOD
\* (uint64_t) x
ToU64(x) == x % U64_MOD
\* (int) x : the conversion of the uint64_t counter by `return loops_cnt`
ToInt(x) == LET u == x % UINT_MOD
            IN  IF u >= UINT_MOD \div 2 THEN u - UINT_MOD ELSE u

Min(a, b) == IF a < b THEN a ELSE b

\* ------------------------------------------------------------------ state
VARIABLES
  drv,    \* the caller: module init / run_benchmark_tests, or a direct call
  frame,  \* the running benchmark function: its arguments, locals and pc
  tb,     \* the time_bench_record's boundary markers
  q,      \* the alf_queue behind the handle
  obs,    \* what the queue saw during the current call of a function
  klog    \* pr_info / pr_warn / pr_err lines

vars == <<drv, frame, tb, q, obs, klog>>

MSG_LOADED == "Loaded"
MSG_NEED_QUEUE == "Need queue struct ptr as input"
MSG_TOO_BIG == "Loop cnt too big will overflow 32-bit"
MSG_BULK_CAP == "bulk request too big cap at MAX_BULK"

Count(log, m) == Cardinality({k \in 1..Len(log) : log[k] = m})

\* ------------------------------------------------ linux/time_bench.h markers
time_bench_start(t) == [t EXCEPT !.starts = @ + 1]
time_bench_stop(t, invoked_cnt) ==
  [t EXCEPT !.stops = @ + 1, !.cnt = invoked_cnt]

TbInit == [starts |-> 0, stops |-> 0, cnt |-> 0]

\* ------------------------------------------------------ linux/alf_queue.h
\* The outcomes of one call asking for cnt items: r is the value returned,
\* moved the number of items that entered or left the ring.
\*   "ok"     a correct bounded ring: an enqueue that does not fit fails, a
\*            dequeue hands out what is there or fails when it is short;
\*   "faulty" as "ok", and any call may fail with nothing moved;
\*   "any"    any count from 0 to cnt that the ring allows, or a failure.
EnqOk(len, cnt) ==
  IF len + cnt <= ring_size
    THEN {[r |-> cnt, moved |-> cnt]}
    ELSE {[r |-> -1, moved |-> 0]}

DeqOk(len, cnt) ==
  IF cnt <= len
    THEN {[r |-> cnt, moved |-> cnt]}
    ELSE {[r |-> len, moved |-> len], [r |-> -1, moved |-> 0]}

Failure == {[r |-> -1, moved |-> 0]}

MayFault == drv.mode = "call" \/ obs.calls < FaultWindow

alf_mp_enqueue(cnt) ==
  CASE q.kind = "ok" -> EnqOk(q.len, cnt)
    [] q.kind = "faulty" ->
         EnqOk(q.len, cnt) \cup (IF MayFault THEN Failure ELSE {})
    [] OTHER ->
         Failure \cup
         {[r |-> k, moved |-> k] : k \in 0..Min(cnt, ring_size - q.len)}

alf_mc_dequeue(cnt) ==
  CASE q.kind = "ok" -> DeqOk(q.len, cnt)
    [] q.kind = "faulty" ->
         DeqOk(q.len, cnt) \cup (IF MayFault THEN Failure ELSE {})
    [] OTHER ->
         Failure \cup {[r |-> k, moved |-> k] : k \in 0..Min(cnt, q.len)}

\* The bookkeeping of one call: the ring's new length and what was observed.
Enqueued(o, cnt) ==
  /\ q' = [q EXCEPT !.len = @ + o.moved]
  /\ obs' = [obs EXCEPT !.calls = @ + 1,
                        !.reqs = @ \cup {cnt},
                        !.xfer = @ + o.moved,
                        !.fail = @ \/ o.r < 0,
                        !.failcall = IF o.r < 0 /\ ~obs.fail
                                       THEN obs.calls + 1 ELSE @,
                        !.full = @ \/ q.len + cnt > ring_size]

Dequeued(o, cnt) ==
  /\ q' = [q EXCEPT !.len = @ - o.moved]
  /\ obs' = [obs EXCEPT !.calls = @ + 1,
                        !.reqs = @ \cup {cnt},
                        !.xfer = @ + o.moved,
                        !.fail = @ \/ o.r < 0,
                        !.failcall = IF o.r < 0 /\ ~obs.fail
                                       THEN obs.calls + 1 ELSE @,
                        !.short = @ \/ q.len < cnt]

ObsInit(len) ==
  [calls |-> 0, reqs |-> {}, xfer |-> 0, fail |-> FALSE, failcall |-> 0,
   full |-> FALSE, short |-> FALSE, len0 |-> len]

\* --------------------------------------------------- the benchmark functions
\* A frame is one invocation func(rec, data).  i is kept as the int it is;
\* `i < rec->loops` compares it after conversion to unsigned.
NewFrame(fn, rec_loops, rec_step, data) ==
  [fn |-> fn, loops |-> rec_loops, step |-> rec_step, data |-> data,
   pc |-> "entry", i |-> 0, n |-> 0, loops_cnt |-> 0, bulk |-> rec_step,
   ret |-> 0]

IdleFrame ==
  [fn |-> "none", loops |-> 0, step |-> 0, data |-> NULL,
   pc |-> "idle", i |-> 0, n |-> 0, loops_cnt |-> 0, bulk |-> 0, ret |-> 0]

\* the guard comparing with > against 2^32
TooBig_above(prod) == prod > UINT_MOD
\* if (... >= ((1ULL<<32)-1))
TooBig(prod) == prod >= UINT_MOD - 1

\* i < rec->loops  (i converted to uint32_t)
InLoop(i, rec_loops) == ToU32(i) < rec_loops

\* return value;  leaves the function
Return(f, value) == [f EXCEPT !.pc = "done", !.ret = value]

\* if (queue == NULL) { pr_err(...); return -1; }
NullQueue ==
  /\ frame' = Return(frame, -1)
  /\ klog' = Append(klog, MSG_NEED_QUEUE)
  /\ UNCHANGED <<drv, tb, q, obs>>

\* { pr_err("Loop cnt too big will overflow 32-bit\n"); return 0; }
Overflow(f, log) ==
  /\ frame' = Return(f, 0)
  /\ klog' = Append(log, MSG_TOO_BIG)
  /\ UNCHANGED <<drv, tb, q, obs>>

\* time_bench_stop(rec, loops_cnt); return loops_cnt;
StopAndReturn(f) ==
  /\ frame' = Return(f, ToInt(f.loops_cnt))
  /\ tb' = time_bench_stop(tb, f.loops_cnt)

\* ---- time_bench_for_loop
for_loop_entry ==
  /\ frame.fn = "for_loop" /\ frame.pc = "entry"
  /\ IF InLoop(0, frame.loops)
       THEN /\ frame' = [frame EXCEPT !.pc = "loop"]
            /\ tb' = time_bench_start(tb)
       ELSE /\ frame' = Return(frame, ToInt(0))
            /\ tb' = time_bench_stop(time_bench_start(tb), 0)
  /\ UNCHANGED <<drv, q, obs, klog>>

for_loop_iter ==
  /\ frame.fn = "for_loop" /\ frame.pc = "loop"
  /\ LET f == [frame EXCEPT !.loops_cnt = ToU64(@ + 1), !.i = ToInt(@ + 1)]
     IN  IF InLoop(f.i, f.loops)
           THEN frame' = f /\ UNCHANGED tb
           ELSE StopAndReturn(f)
  /\ UNCHANGED <<drv, q, obs, klog>>

\* ---- time_bench_single_enqueue_dequeue
\* the failure path returning the partial count
single_fail_partial(f) == Return(f, ToInt(f.loops_cnt))
\* fail: return 0;
single_fail(f) == Return(f, 0)

single_entry ==
  /\ frame.fn = "single" /\ frame.pc = "entry"
  /\ IF frame.data = NULL THEN NullQueue
     ELSE IF TooBig(ToU64(frame.loops * 2)) THEN Overflow(frame, klog)
     ELSE /\ IF InLoop(0, frame.loops)
               THEN /\ frame' = [frame EXCEPT !.pc = "enq"]
                    /\ tb' = time_bench_start(tb)
               ELSE /\ frame' = Return(frame, ToInt(0))
                    /\ tb' = time_bench_stop(time_bench_start(tb), 0)
          /\ UNCHANGED <<drv, q, obs, klog>>

single_enqueue ==
  /\ frame.fn = "single" /\ frame.pc = "enq"
  /\ \E o \in alf_mp_enqueue(1) :
       /\ Enqueued(o, 1)
       /\ frame' = IF o.r < 0 THEN single_fail(frame)
                   ELSE [frame EXCEPT !.loops_cnt = ToU64(@ + 1),
                                      !.pc = "deq"]
  /\ UNCHANGED <<drv, tb, klog>>

single_dequeue ==
  /\ frame.fn = "single" /\ frame.pc = "deq"
  /\ \E o \in alf_mc_dequeue(1) :
       /\ Dequeued(o, 1)
       /\ IF o.r < 0
            THEN frame' = single_fail(frame) /\ UNCHANGED tb
            ELSE LET f == [frame EXCEPT !.loops_cnt = ToU64(@ + 1),
                                        !.i = ToInt(@ + 1)]
                 IN  IF InLoop(f.i, f.loops)
                       THEN frame' = [f EXCEPT !.pc = "enq"] /\ UNCHANGED tb
                       ELSE StopAndReturn(f)
  /\ UNCHANGED <<drv, klog>>

\* ---- time_multi_enqueue_dequeue
\* fail: return -1;
multi_fail(f) == Return(f, -1)

\* i++ done: the head of the outer loop, for (...; i < rec->loops; i++)
multi_head(f) ==
  IF InLoop(f.i, f.loops)
    THEN frame' = [f EXCEPT !.n = 0, !.pc = "enq"] /\ UNCHANGED tb
    ELSE StopAndReturn(f)

\* With no element to move (elems <= 0) the iterations make no queue call.
multi_entry ==
  /\ frame.fn = "multi" /\ frame.pc = "entry"
  /\ IF frame.data = NULL THEN NullQueue
     ELSE IF TooBig(ToU64(frame.loops * 2 * frame.step))
       THEN Overflow(frame, klog)
     ELSE /\ IF InLoop(0, frame.loops) /\ 0 < frame.step
               THEN /\ frame' = [frame EXCEPT !.pc = "enq"]
                    /\ tb' = time_bench_start(tb)
               ELSE /\ frame' = Return([frame EXCEPT !.i = ToInt(frame.loops)],
                                       ToInt(0))
                    /\ tb' = time_bench_stop(time_bench_start(tb), 0)
          /\ UNCHANGED <<drv, q, obs, klog>>

multi_enqueue ==
  /\ frame.fn = "multi" /\ frame.pc = "enq"
  /\ \E o \in alf_mp_enqueue(1) :
       /\ Enqueued(o, 1)
       /\ frame' =
            IF o.r < 0 THEN multi_fail(frame)
            ELSE LET f == [frame EXCEPT !.loops_cnt = ToU64(@ + 1),
                                        !.n = @ + 1]
                 IN  IF f.n < f.step THEN f
                     ELSE [f EXCEPT !.n = 0, !.pc = "deq"]
  /\ UNCHANGED <<drv, tb, klog>>

multi_dequeue ==
  /\ frame.fn = "multi" /\ frame.pc = "deq"
  /\ \E o \in alf_mc_dequeue(1) :
       /\ Dequeued(o, 1)
       /\ IF o.r < 0
            THEN frame' = multi_fail(frame) /\ UNCHANGED tb
            ELSE LET f == [frame EXCEPT !.loops_cnt = ToU64(@ + 1),
                                        !.n = @ + 1]
                 IN  IF f.n < f.step
                       THEN frame' = f /\ UNCHANGED tb
                       ELSE multi_head([f EXCEPT !.i = ToInt(@ + 1)])
  /\ UNCHANGED <<drv, klog>>

\* ---- time_BULK_enqueue_dequeue
\* fail: return -1;
BULK_fail(f) == Return(f, -1)

\* if (bulk > MAX_BULK) bulk = MAX_BULK;
ClampBulk(bulk) == IF bulk > MAX_BULK THEN MAX_BULK ELSE bulk

\* loops_cnt += bulk;  after a call that returned r >= 0
BULK_count(cnt, bulk, r) == ToU64(cnt + bulk)

BULK_entry ==
  /\ frame.fn = "BULK" /\ frame.pc = "entry"
  /\ IF frame.data = NULL THEN NullQueue
     ELSE LET f == [frame EXCEPT !.bulk = ClampBulk(@)]
              log == IF frame.bulk > MAX_BULK
                       THEN Append(klog, MSG_BULK_CAP) ELSE klog
          IN  IF TooBig(ToU64(f.loops * f.bulk * 2))
                THEN Overflow(f, log)
                ELSE /\ klog' = log
                     /\ IF InLoop(0, f.loops)
                          THEN /\ frame' = [f EXCEPT !.pc = "enq"]
                               /\ tb' = time_bench_start(tb)
                          ELSE /\ frame' = Return(f, ToInt(0))
                               /\ tb' = time_bench_stop(time_bench_start(tb), 0)
                     /\ UNCHANGED <<drv, q, obs>>

BULK_enqueue ==
  /\ frame.fn = "BULK" /\ frame.pc = "enq"
  /\ \E o \in alf_mp_enqueue(frame.bulk) :
       /\ Enqueued(o, frame.bulk)
       /\ frame' =
            IF o.r < 0 THEN BULK_fail(frame)
            ELSE [frame EXCEPT
                    !.loops_cnt = BULK_count(@, frame.bulk, o.r),
                    !.pc = "deq"]
  /\ UNCHANGED <<drv, tb, klog>>

BULK_dequeue ==
  /\ frame.fn = "BULK" /\ frame.pc = "deq"
  /\ \E o \in alf_mc_dequeue(frame.bulk) :
       /\ Dequeued(o, frame.bulk)
       /\ IF o.r < 0
            THEN frame' = BULK_fail(frame) /\ UNCHANGED tb
            ELSE LET f == [frame EXCEPT
                             !.loops_cnt = BULK_count(@, frame.bulk, o.r),
                             !.i = ToInt(@ + 1)]
                 IN  IF InLoop(f.i, f.loops)
                       THEN frame' = [f EXCEPT !.pc = "enq"] /\ UNCHANGED tb
                       ELSE StopAndReturn(f)
  /\ UNCHANGED <<drv, klog>>

\* ------------------------------------------------------------- the driver
\* run_benchmark_tests: time_bench_loop(loops*1000, 0, "for_loop", NULL, ...)
Calibration ==
  [txt |-> "for_loop", loops |-> ToU32(loops * 1000), step |-> 0,
   func |-> "for_loop"]

\* run_benchmark_tests: the time_bench_loop calls made with MPMC, in order
Configs ==
  << [txt |-> "ALF-simple", loops |-> loops, step |-> 0, func |-> "single"],
     [txt |-> "ALF-multi", loops |-> loops \div 100, step |-> 128,
      func |-> "multi"],
     [txt |-> "ALF-bulk2", loops |-> loops, step |-> 2, func |-> "BULK"],
     [txt |-> "ALF-bulk4", loops |-> loops, step |-> 4, func |-> "BULK"],
     [txt |-> "ALF-bulk6", loops |-> loops, step |-> 6, func |-> "BULK"],
     [txt |-> "ALF-bulk8", loops |-> loops, step |-> 8, func |-> "BULK"],
     [txt |-> "ALF-bulk16", loops |-> loops, step |-> 16, func |-> "BULK"] >>

Event(ev, txt, data) == [ev |-> ev, txt |-> txt, data |-> data]

DrvInit(mode, at) ==
  [mode |-> mode, at |-> at, k |-> 0, MPMC |-> "unset", allocs |-> 0,
   frees |-> 0, passed_count |-> 0, run_ret |-> 0, init_ret |-> "none",
   trace |-> <<>>, rets |-> <<>>]

\* a driver that gives up after a configuration that failed
AfterConfig_abort(k, r) ==
  IF k < Len(Configs) /\ r > 0 THEN [at |-> "cfg", k |-> k + 1]
                               ELSE [at |-> "free", k |-> k]

\* Where run_benchmark_tests goes on after the k-th configuration returned r
AfterConfig(k, r) ==
  IF k < Len(Configs) THEN [at |-> "cfg", k |-> k + 1]
                      ELSE [at |-> "free", k |-> k]

\* return passed_count;
run_benchmark_tests_result(d) == d.passed_count

\* alf_queue_bench_module_init: if (verbose) pr_info("Loaded\n"); and the
\* entry of run_benchmark_tests
module_init ==
  /\ drv.mode = "module" /\ drv.at = "load"
  /\ klog' = Append(klog, MSG_LOADED)
  /\ drv' = [drv EXCEPT !.at = "calib", !.passed_count = 0]
  /\ UNCHANGED <<frame, tb, q, obs>>

\* time_bench_loop(loops, step, txt, data, func): invokes func(&rec, data)
time_bench_loop ==
  /\ drv.mode = "module" /\ drv.at \in {"calib", "cfg"}
  /\ frame.pc = "idle"
  /\ LET c == IF drv.at = "calib" THEN Calibration ELSE Configs[drv.k]
         d == IF drv.at = "calib" THEN NULL ELSE drv.MPMC
     IN  /\ frame' = NewFrame(c.func, c.loops, c.step, d)
         /\ drv' = [drv EXCEPT !.trace = Append(@, Event("call", c.txt, d))]
  /\ tb' = TbInit
  /\ obs' = ObsInit(q.len)
  /\ UNCHANGED <<q, klog>>

\* func returned: time_bench_loop returns to run_benchmark_tests
time_bench_loop_return ==
  /\ drv.mode = "module" /\ drv.at \in {"calib", "cfg"}
  /\ frame.pc = "done"
  /\ LET nxt == IF drv.at = "calib" THEN [at |-> "alloc", k |-> 0]
                ELSE AfterConfig(drv.k, frame.ret)
     IN  drv' = [drv EXCEPT !.at = nxt.at, !.k = nxt.k,
                            !.rets = Append(@, frame.ret)]
  /\ frame' = IdleFrame
  /\ UNCHANGED <<tb, q, obs, klog>>

\* What alf_queue_alloc hands back: a queue, or NULL when it fails
AllocResults == {"Q", NULL}

\* MPMC = alf_queue_alloc(ring_size, GFP_KERNEL);  the result is not checked
alf_queue_alloc ==
  /\ drv.mode = "module" /\ drv.at = "alloc"
  /\ \E h \in AllocResults, kind \in {"ok", "faulty"} :
       /\ h = NULL => kind = "ok"
       /\ drv' = [drv EXCEPT !.MPMC = h, !.allocs = @ + 1,
                             !.at = "cfg", !.k = 1,
                             !.trace = Append(@, Event("alloc", "", h))]
       /\ q' = [kind |-> kind, len |-> 0]
  /\ UNCHANGED <<frame, tb, obs, klog>>

\* alf_queue_free(MPMC); return passed_count;
alf_queue_free ==
  /\ drv.mode = "module" /\ drv.at = "free"
  /\ drv' = [drv EXCEPT !.frees = @ + 1, !.at = "return",
                        !.trace = Append(@, Event("free", "", drv.MPMC)),
                        !.run_ret = run_benchmark_tests_result(drv)]
  /\ UNCHANGED <<frame, tb, q, obs, klog>>

\* if (run_benchmark_tests() < 0) return -ECANCELED;  return 0;
module_init_return ==
  /\ drv.mode = "module" /\ drv.at = "return"
  /\ drv' = [drv EXCEPT !.at = "end",
                        !.init_ret = IF drv.run_ret < 0 THEN "-ECANCELED"
                                                        ELSE "0"]
  /\ UNCHANGED <<frame, tb, q, obs, klog>>

\* ------------------------------------------------------- inputs of a call
IntMax == UINT_MOD \div 2 - 1

LoopsSet ==
  {0, 1, 2, 3, Pow2(INT_BITS - 7), Pow2(INT_BITS - 2),
   IntMax, IntMax + 1, UINT_MOD - 1}

\* batch sizes (>= 1); the functions that ignore rec->step get the driver's 0
StepSet == {1, 2, 3, 16, MAX_BULK, MAX_BULK + 1, 50, 128}

CallInputs ==
  {c \in [fn : {"for_loop", "single", "multi", "BULK"}, loops : LoopsSet,
          step : StepSet \cup {0}, data : {NULL, "Q"},
          kind : {"ok", "faulty", "any"}, len : {0, ring_size}] :
     /\ c.step = 0 <=> c.fn \in {"for_loop", "single"}
     \* the calibrator has no guard: beyond INT_MAX its int i would overflow
     /\ c.fn = "for_loop" => c.data = NULL /\ c.loops <= IntMax
     /\ c.data = NULL => c.kind = "ok" /\ c.len = 0
     /\ c.kind # "ok" => c.len = 0
     /\ c.kind = "any" => c.loops <= PartialLoops /\ c.step <= PartialStep}

Init ==
  \/ /\ drv = DrvInit("module", "load")
     /\ frame = IdleFrame
     /\ tb = TbInit
     /\ q = [kind |-> "ok", len |-> 0]
     /\ obs = ObsInit(0)
     /\ klog = <<>>
  \/ \E c \in CallInputs :
       /\ drv = DrvInit("call", "call")
       /\ frame = NewFrame(c.fn, c.loops, c.step, c.data)
       /\ tb = TbInit
       /\ q = [kind |-> c.kind, len |-> c.len]
       /\ obs = ObsInit(c.len)
       /\ klog = <<>>

Next ==
  \/ module_init
  \/ time_bench_loop
  \/ time_bench_loop_return
  \/ alf_queue_alloc
  \/ alf_queue_free
  \/ module_init_return
  \/ for_loop_entry
  \/ for_loop_iter
  \/ single_entry
  \/ single_enqueue
  \/ single_dequeue
  \/ multi_entry
  \/ multi_enqueue
  \/ multi_dequeue
  \/ BULK_entry
  \/ BULK_enqueue
  \/ BULK_dequeue

Spec == Init /\ [][Next]_vars

\* ================================================================ claims
Variants == {"single", "multi", "BULK"}
Done == frame.pc = "done"
Running == frame.fn \in Variants /\ frame.pc # "entry"

\* The width w of a claim: 1, elems, or the bulk capped at 32
ClaimWidth ==
  CASE frame.fn = "multi" -> frame.step
    [] frame.fn = "BULK" -> IF frame.step > 32 THEN 32 ELSE frame.step
    [] OTHER -> 1
\* 2 * N * w
ClaimOps == 2 * frame.loops * ClaimWidth
\* 2^32 - 1 at the model's width
ClaimLimit == UINT_MOD - 1
Rejected == Count(klog, MSG_TOO_BIG) > 0

\* C1: with 2*N*w < 2^32 - 1 and a queue that never reports failure, each
\* variant returns exactly 2*N*w as its int result and passes the same value
\* to time_bench_stop.
C1_ReturnsExactCount ==
  (Running /\ Done /\ frame.data # NULL /\ ClaimOps < ClaimLimit
     /\ ~obs.fail)
    => /\ frame.ret = ClaimOps
       /\ tb.stops = 1
       /\ tb.cnt = ClaimOps

\* C2: given a queue, a variant whose 2*N*w is 2^32 - 1 or above returns 0
\* with no call of time_bench_start, time_bench_stop, enqueue or dequeue and
\* the queue as it was; one whose 2*N*w is 2^32 - 2 or below passes the guard.
C2_GuardRejects ==
  (Running /\ frame.data # NULL)
    => IF ClaimOps >= ClaimLimit
         THEN /\ Done /\ frame.ret = 0
              /\ tb.starts = 0 /\ tb.stops = 0
              /\ obs.calls = 0 /\ q.len = obs.len0
         ELSE ~Rejected /\ tb.starts = 1

C2_Witness ==
  /\ Running /\ Done /\ frame.data # NULL /\ frame.fn = "single"
  /\ ClaimOps = ClaimLimit + 1
  /\ frame.ret = 0 /\ Rejected

\* C3: in the Single-Op variant a negative result of enqueue or dequeue ends
\* the loop at that call, no queue call follows it, and the variant returns
\* 0, not the count of the operations done before.
C3_SingleFailReturnsZero ==
  (frame.fn = "single" /\ obs.fail)
    => /\ Done
       /\ obs.calls = obs.failcall
       /\ frame.ret = 0

\* the dequeue of the fifth iteration fails after nine counted operations
C3_Witness ==
  /\ frame.fn = "single" /\ obs.fail /\ Done
  /\ obs.failcall = 10 /\ frame.loops_cnt = 9 /\ frame.ret = 0

\* C4: on a negative result of enqueue or dequeue the Unbatched-Multi and
\* Bulk-Batched variants stop at once and return what Single-Op returns
\* there, a count of zero.
C4_MultiBulkFailReturnsZero ==
  (frame.fn \in {"multi", "BULK"} /\ obs.fail)
    => /\ Done
       /\ obs.calls = obs.failcall
       /\ frame.ret = 0

\* C5: time_bench_start is called never or exactly once, and once called it
\* is followed by exactly one time_bench_stop before the function returns,
\* on every path.
C5_MarkersPaired ==
  /\ tb.stops <= tb.starts /\ tb.starts <= 1
  /\ (frame.fn # "none" /\ Done) => tb.stops = tb.starts

\* C6: when the allocation failed no variant calls enqueue or dequeue,
\* run_benchmark_tests returns a negative value and module init returns
\* -ECANCELED; when it succeeded module init returns 0.
C6_AllocFailureCancels ==
  (drv.mode = "module" /\ drv.allocs = 1)
    => /\ drv.MPMC = NULL => obs.calls = 0
       /\ drv.at = "end" =>
            IF drv.MPMC = NULL
              THEN drv.run_ret < 0 /\ drv.init_ret = "-ECANCELED"
              ELSE drv.init_ret = "0"

\* the order of the queue configurations
ClaimOrder ==
  <<"ALF-simple", "ALF-multi", "ALF-bulk2", "ALF-bulk4", "ALF-bulk6",
    "ALF-bulk8", "ALF-bulk16">>

\* what run_benchmark_tests does with handle h: the calibration, one
\* allocation, the seven configurations on h, one free
ClaimTrace(h) ==
  <<Event("call", "for_loop", NULL), Event("alloc", "", h)>>
  \o [k \in 1..Len(ClaimOrder) |-> Event("call", ClaimOrder[k], h)]
  \o <<Event("free", "", h)>>

\* C7: run_benchmark_tests allocates once, then runs ALF-simple, ALF-multi,
\* ALF-bulk2, 4, 6, 8, 16 in that order on that handle whatever each returned,
\* then frees once; a variant runs only between the allocation and the free.
C7_DriverLifecycle ==
  drv.mode = "module"
    => /\ Len(drv.trace) <= Len(ClaimTrace(drv.MPMC))
       /\ drv.trace = SubSeq(ClaimTrace(drv.MPMC), 1, Len(drv.trace))
       /\ drv.at \in {"return", "end"} => drv.trace = ClaimTrace(drv.MPMC)
       /\ drv.allocs <= 1 /\ drv.frees <= drv.allocs
       /\ frame.fn \in Variants =>
            drv.allocs = 1 /\ drv.frees = 0 /\ frame.data = drv.MPMC

\* a finished run in which ALF-simple returned 0, ALF-multi -1 and
\* ALF-bulk16 a count
C7_Witness ==
  /\ drv.mode = "module" /\ drv.at = "end" /\ drv.MPMC = "Q"
  /\ Len(drv.rets) = 8
  /\ drv.rets[2] = 0 /\ drv.rets[3] = -1 /\ drv.rets[8] > 0
  /\ drv.allocs = 1 /\ drv.frees = 1

\* C8: a bulk width above 32 is used as 32: every enqueue and dequeue asks
\* for 32 items, one warning is emitted, the guard and the returned count
\* (2*N*32) use 32; a width of 32 or less is unchanged, with no warning.
C8_BulkClamped ==
  (Running /\ frame.fn = "BULK" /\ frame.data # NULL)
    => IF frame.step > 32
         THEN /\ frame.bulk = 32
              /\ obs.reqs \subseteq {32}
              /\ Count(klog, MSG_BULK_CAP) = 1
              /\ Rejected <=> 2 * frame.loops * 32 >= ClaimLimit
              /\ (Done /\ ~Rejected /\ ~obs.fail)
                   => frame.ret = 2 * frame.loops * 32
         ELSE /\ frame.bulk = frame.step
              /\ obs.reqs \subseteq {frame.step}
              /\ Count(klog, MSG_BULK_CAP) = 0

\* C9: the Bulk-Batched counter grows by bulk only for a call that moved
\* exactly bulk items, so that the count of a run without failure is the
\* number of items the queue moved.
C9_BulkCountsTransferred ==
  (Running /\ frame.fn = "BULK" /\ frame.data # NULL /\ ~obs.fail)
    => /\ frame.loops_cnt = obs.xfer
       /\ (Done /\ ~Rejected) => tb.cnt = obs.xfer

\* C10: on a correct ring of 512 slots that is empty when a variant starts,
\* the occupancy never exceeds the variant's width, is 0 at the end of each
\* outer iteration and at the return, and no enqueue finds the ring full and
\* no dequeue finds it short, in all of the driver's configurations.
C10_BalancedOccupancy ==
  /\ (drv.mode = "module" /\ drv.MPMC = "Q" /\ q.kind = "ok")
       => obs.len0 = 0 /\ (frame.pc = "idle" => q.len = 0)
  /\ (Running /\ frame.data = "Q" /\ q.kind = "ok" /\ obs.len0 = 0)
       => /\ q.len <= ClaimWidth
          /\ (frame.pc = "enq" /\ frame.n = 0) => q.len = 0
          /\ Done => q.len = 0
          /\ ~obs.full /\ ~obs.short /\ ~obs.fail

\* the driver's ALF-multi has filled the ring with its 128 items
C10_Witness ==
  /\ drv.mode = "module" /\ drv.MPMC = "Q" /\ q.kind = "ok"
  /\ frame.fn = "multi" /\ frame.pc = "deq" /\ frame.n = 0
  /\ q.len = 128 /\ frame.i = 0

\* Read at the 64-bit counter handed to time_bench_stop, the capped width is
\* the one counted: the int conversion of C1 is all that C8's count misses.
BulkClampCountsCappedWidth ==
  (Running /\ frame.fn = "BULK" /\ frame.data # NULL /\ Done
     /\ ~Rejected /\ ~obs.fail)
    => /\ tb.cnt = ClaimOps
       /\ frame.ret = ToInt(ClaimOps)

=============================================================================
